---------------------------- MODULE Spec2Model ----------------------------
(***************************************************************************)
(* Model of the giveaway bot of src/app.js: the persisted collection of   *)
(* drawings (data/giveaways.json), the asynchronous handlers that load    *)
(* it, mutate their private copy and write the whole copy back, the       *)
(* timers they arm and the buttons of the channel message.                *)
(*                                                                         *)
(* Granularity.  JavaScript runs a handler without interruption between   *)
(* two awaits.  Every action below is one such run: it starts when the    *)
(* awaited call returns and ends at the next await whose outcome matters  *)
(* (the Random Source, the configuration read, the channel calls).        *)
(* loadGiveaways is taken to return the file as it is when the handler    *)
(* resumes and saveGiveaways to replace the file when it is called.       *)
(*                                                                         *)
(* Units.  Pots are whole coins (c).  baseWinC and payoutC carry two      *)
(* decimals in the source; here they are integers in hundredths of c.     *)
(***************************************************************************)
EXTENDS Integers, Sequences, FiniteSets, Bags, TLC

VARIABLES
    store,       \* data/giveaways.json: drawing id -> persisted drawing
    procs,       \* bag of suspended handler invocations (awaiting I/O)
    msg,         \* per drawing: the buttons its channel message shows
    endTimer,    \* per drawing: armed end-of-drawing timers
    ddTimer,     \* per drawing: armed double-down timeouts
    rollsDrawn,  \* per drawing: primary rolls obtained from the Random Source
    budget,      \* external events the run may still take, by kind
    out          \* what the last step did: handler, drawing, user, reply, calls

vars == <<store, procs, msg, endTimer, ddTimer, rollsDrawn, budget, out>>

-----------------------------------------------------------------------------
(* Bounds of the model *)

MaxEvents == 4       \* submissions, forced ends and clicks over a run
MaxEventsTwo == 1    \* submissions and forced ends over two drawings
MaxEventsJoin == 1   \* modal submissions over two drawings
MaxEventsLive == 1   \* submissions in the runs left to timers and I/O
MaxEntries == 2      \* entries of the drawing whose resolution is examined
MaxClicks == 1       \* double-down clicks after a resolution
MaxSubmissions == 2  \* submissions racing each other and a resolution

(* Program constants *)

DefaultPot == 1000           \* defaultConfig.pot
LowPotSharePercent == 30     \* defaultConfig.riskProfiles.low
HighPotSharePercent == 70    \* defaultConfig.riskProfiles.high
HouseEdgePercent == 2        \* defaultConfig.houseEdge = 0.02
DoubleDownMs == 21600000     \* 6*60*60*1000
WinThreshold == 50           \* double down wins on r >= 50

Gids == {"A", "B"}
Users == {"u1", "u2"}

\* Values the Random Source returns for a 0..100 request in this model.
Rolls == {40, 60}

Max(a, b) == IF a >= b THEN a ELSE b

-----------------------------------------------------------------------------
(* Records *)

NoWinner ==
    [kind |-> "undef", userId |-> "", main |-> 0, tiebreak |-> 0,
     choice |-> "", stake |-> 0, payoutC |-> 0, baseWinC |-> 0, potShareC |-> 0]

NullWinner == [NoWinner EXCEPT !.kind = "null"]

NoDoubleDown == [state |-> "absent", deadline |-> 0, winnerId |-> ""]

Absent ==
    [present |-> FALSE, entries |-> <<>>, pot |-> 0, ended |-> FALSE,
     roll |-> 0, hasRoll |-> FALSE, winner |-> NoWinner, result |-> "none",
     doubleDown |-> NoDoubleDown, messageId |-> FALSE]

\* The object literal of a new drawing.
NewDrawing(pot) == [Absent EXCEPT !.present = TRUE, !.pot = pot]

Entry(u, main, tiebreak, stake, choice, risk) ==
    [userId |-> u, main |-> main, tiebreak |-> tiebreak, stakeC |-> stake,
     choice |-> choice, riskProfile |-> risk]

-----------------------------------------------------------------------------
(* Winner selection, resolveGiveaway lines 165-228 *)

\* The filter with strict comparisons.
IsCandidateStrict(entry, roll) ==
    IF entry.choice = "under" THEN roll < entry.main
    ELSE IF entry.choice = "over" THEN roll > entry.main
    ELSE FALSE

IsCandidate(entry, roll) ==
    IF entry.choice = "under" THEN roll <= entry.main
    ELSE IF entry.choice = "over" THEN roll >= entry.main
    ELSE FALSE

WinnersCandidates(entries, roll) ==
    SelectSeq(entries, LAMBDA e : IsCandidate(e, roll))

\* grouped[w.main]: the candidates with that main, in list order.
Grouped(cands, m) == SelectSeq(cands, LAMBDA e : e.main = m)

RECURSIVE Ascending(_)
Ascending(S) ==
    IF S = {} THEN <<>>
    ELSE LET lo == CHOOSE x \in S : \A y \in S : x <= y
         IN <<lo>> \o Ascending(S \ {lo})

\* Object.keys(grouped): integer-like keys come in ascending numeric order.
GroupKeys(cands) == Ascending({cands[i].main : i \in DOMAIN cands})

\* The same after a sort by ascending tiebreak.
TiedBottom(arr) ==
    LET low == CHOOSE t \in {arr[i].tiebreak : i \in DOMAIN arr} :
                   \A i \in DOMAIN arr : arr[i].tiebreak >= t
    IN SelectSeq(arr, LAMBDA e : e.tiebreak = low)

\* arr.sort by descending tiebreak (stable), then the entries equal to arr[0].
TiedTop(arr) ==
    LET top == CHOOSE t \in {arr[i].tiebreak : i \in DOMAIN arr} :
                   \A i \in DOMAIN arr : arr[i].tiebreak <= t
    IN SelectSeq(arr, LAMBDA e : e.tiebreak = top)

\* Asking for every group of two or more, tied or not.
GroupOfSeveral(cands, m) == Len(Grouped(cands, m)) > 1

\* Whether the group of main m asks the Random Source (range 0..k-1).
GroupNeedsRandom(cands, m) ==
    /\ Len(Grouped(cands, m)) > 1
    /\ Len(TiedTop(Grouped(cands, m))) > 1

\* A Random Source answer: ok with value v, or a failure.
RandomOutcomes(k) == {[ok |-> TRUE, v |-> i] : i \in 0 .. (k - 1)}
                        \cup {[ok |-> FALSE, v |-> 0]}

\* tiedTop[r], or tiedTop[0] when the request failed.
PickOr(seq, o) == IF o.ok THEN seq[o.v + 1] ELSE seq[1]

GroupWinner(cands, m, o) ==
    LET arr == Grouped(cands, m)
    IN IF Len(arr) = 1 THEN arr[1] ELSE PickOr(TiedTop(arr), o)

\* resolved: one representative per key, in key order; tie[m] is the Random
\* Source answer used for the group of main m (ignored when none is asked).
Resolved(cands, tie) ==
    LET keys == GroupKeys(cands)
    IN [i \in 1 .. Len(keys) |-> GroupWinner(cands, keys[i], tie[keys[i]])]

FinalWinner(resolved, fin) ==
    IF Len(resolved) = 1 THEN resolved[1] ELSE PickOr(resolved, fin)

\* The answers the selection can receive: one per key, one for the final pick.
TieAnswers(cands) ==
    LET keys == {cands[i].main : i \in DOMAIN cands}
    IN {t \in [keys -> RandomOutcomes(Len(cands))] :
          \A m \in keys :
             IF GroupNeedsRandom(cands, m)
             THEN t[m].ok => t[m].v < Len(TiedTop(Grouped(cands, m)))
             ELSE t[m] = [ok |-> FALSE, v |-> 0]}

FinalAnswers(resolved) ==
    IF Len(resolved) > 1 THEN RandomOutcomes(Len(resolved))
    ELSE {[ok |-> FALSE, v |-> 0]}

\* One randomOrgInteger(0, k - 1) call of the selection and its answer o:
\* for the group of main key, or for the final pick.
Request(for, key, k, o) ==
    [for |-> for, key |-> key, min |-> 0, max |-> k - 1, ok |-> o.ok, v |-> o.v]

\* The calls of the group loop for keys[i..], in the order they are made.
RECURSIVE GroupRequests(_, _, _, _)
GroupRequests(cands, tie, keys, i) ==
    IF i > Len(keys) THEN <<>>
    ELSE (IF GroupNeedsRandom(cands, keys[i])
          THEN <<Request("group", keys[i],
                         Len(TiedTop(Grouped(cands, keys[i]))), tie[keys[i]])>>
          ELSE <<>>)
         \o GroupRequests(cands, tie, keys, i + 1)

\* Every call the selection makes after the roll.
SelectionRequests(cands, tie, fin) ==
    LET resolved == Resolved(cands, tie)
    IN GroupRequests(cands, tie, GroupKeys(cands), 1)
          \o (IF Len(resolved) > 1
              THEN <<Request("final", 0, Len(resolved), fin)>>
              ELSE <<>>)

-----------------------------------------------------------------------------
(* Payout, resolveGiveaway lines 234-266 *)

\* floor(stake * (1/prob) * (1 - houseEdge) * 100), in hundredths of c.
\* prob = (main+1)/101 or (101-main)/101, so the product is
\* stake * 101 * (100 - HouseEdgePercent) / denominator.  The source computes
\* it in IEEE doubles, which agree with this quotient for the mains of the
\* model (they can differ by one hundredth where the quotient is an integer).
BaseWin(entry) ==
    LET d0 == IF entry.choice = "under" THEN entry.main + 1 ELSE 101 - entry.main
        d == IF d0 <= 0 THEN 1 ELSE d0
    IN (entry.stakeC * 101 * (100 - HouseEdgePercent)) \div d

PotSharePercent(risk) ==
    IF risk = "high" THEN HighPotSharePercent ELSE LowPotSharePercent

\* Math.floor(pot * (percent / 100)) is evaluated in IEEE-754 doubles:
\* percent / 100 is rounded to c, a 53-bit number with c * 2^q in
\* 2^52 .. 2^53 - 1, and the product pot * c is rounded again before the
\* floor.  Halvings(s) is q - 53 for 0 < s < 100.
Halvings(s) == CHOOSE z \in 0 .. 6 : s * 2^(z + 1) >= 100 /\ s * 2^z < 100

\* 2^q modulo 100, for q >= 2: the residues repeat with period 20.
Pow2Mod100(q) == (2^(2 + ((q - 2) % 20))) % 100

\* 100 * c * 2^q - s * 2^q: the rounding of s / 100 to the nearest double
\* (no tie occurs: s * 2^q is a multiple of 4, 100 k + 50 is not).
QuotientError(s) ==
    LET rem == (s * Pow2Mod100(53 + Halvings(s))) % 100
    IN IF rem < 50 THEN 0 - rem ELSE 100 - rem

\* Per percentage 0 < s < 100: the rounding error of s / 100 and the
\* weight 100 * 2^(q - 53) it is compared against.
Quotients ==
    [s \in 1 .. 99 |-> [err |-> QuotientError(s), unit |-> 100 * 2^Halvings(s)]]

\* The least power of two that is >= a, for a >= 1.
PowersOfTwo == {2^i : i \in 0 .. 30}

Ceil2(a) == CHOOSE p \in PowersOfTwo : p >= a /\ p < 2 * a

\* floor of the double pot * c.  The exact product is
\* (pot * s + pot * QuotientError(s) / 2^q) / 100.  When pot * s is not a
\* multiple of 100, or c is not below s / 100, the floor is that of
\* pot * s / 100.  Otherwise the product lies just below the integer
\* a = pot * s / 100: it is rounded up to a when it is within half a unit
\* in the last place (2^-53 * Ceil2(a)) of a, and its floor is a - 1 when
\* it is not.
FloorOfProduct(pot, s) ==
    LET a == (pot * s) \div 100
    IN IF s <= 0 \/ s >= 100 \/ pot <= 0 THEN a
       ELSE IF /\ (pot * s) % 100 = 0
               /\ Quotients[s].err < 0
               /\ 2 * pot * (0 - Quotients[s].err)
                     > Ceil2(a) * Quotients[s].unit
            THEN a - 1
       ELSE a

PotShareAmount(pot, risk) == FloorOfProduct(pot, PotSharePercent(risk))

PotAfterShare(pot, share) == Max(0, pot - share)

\* g.winner of the resolved drawing.
WinnerRecord(fw, pot) ==
    LET potShareAmount == PotShareAmount(pot, fw.riskProfile)
        baseWinC == BaseWin(fw)
    IN [kind |-> "some", userId |-> fw.userId, main |-> fw.main,
        tiebreak |-> fw.tiebreak, choice |-> fw.choice, stake |-> fw.stakeC,
        payoutC |-> baseWinC + 100 * potShareAmount,
        baseWinC |-> baseWinC,
        potShareC |-> potShareAmount]

-----------------------------------------------------------------------------
(* State *)

NoMessage == [posted |-> FALSE, buttons |-> "none", winnerId |-> ""]

\* The entries participants submit in this model (modal fields, parsed).
E1 == Entry("u1", 50, 10, 1, "under", "high")
E2 == Entry("u2", 50, 10, -1000, "over", "low")
JoinInputs == {E1, E2}

\* The label of a step: the handler, its drawing and user, its outcome, and
\* the Random Source calls a selection made in it.
Out(op, g, u, reply) ==
    [op |-> op, gid |-> g, user |-> u, reply |-> reply, calls |-> <<>>]

\* A suspended invocation: its handler, where it waits, its drawing, its
\* private copy of the collection (data) and the interacting user.
Proc(kind, pc, g, data, u) ==
    [kind |-> kind, pc |-> pc, gid |-> g, data |-> data, user |-> u]

Waiting(kind, pc) == {p \in BagToSet(procs) : p.kind = kind /\ p.pc = pc}

Suspend(p) == procs (+) SetToBag({p})
Finish(p) == procs (-) SetToBag({p})
Resume(p, q) == (procs (-) SetToBag({p})) (+) SetToBag({q})

\* Nothing created yet; the run's budget of external events is b.
InitWith(b) ==
    /\ budget = b
    /\ store = [g \in Gids |-> Absent]
    /\ procs = EmptyBag
    /\ msg = [g \in Gids |-> NoMessage]
    /\ endTimer = [g \in Gids |-> 0]
    /\ ddTimer = [g \in Gids |-> 0]
    /\ rollsDrawn = [g \in Gids |-> 0]
    /\ out = Out("init", "", "", "")

\* One drawing, with entries, forced ends and double-down clicks.
Init ==
    InitWith([create |-> {"A"}, events |-> MaxEvents])

\* Two drawings, with entries and forced ends, no double-down clicks.
InitTwo ==
    InitWith([create |-> Gids, events |-> MaxEventsTwo])

-----------------------------------------------------------------------------
(* Creating a drawing: the $start command and POST /api/create *)

\* const data = await loadGiveaways(); the configuration read follows.
CreateLoad(g) ==
    /\ g \in budget.create
    /\ budget' = [budget EXCEPT !.create = @ \ {g}]
    /\ procs' = Suspend(Proc("create", "config", g, store, ""))
    /\ out' = Out("create", g, "", "")
    /\ UNCHANGED <<store, msg, endTimer, ddTimer, rollsDrawn>>

\* data.giveaways.push(g); await saveGiveaways(data); then the channel send.
CreatePush(p) ==
    LET data == [p.data EXCEPT ![p.gid] = NewDrawing(DefaultPot)]
    IN /\ store' = data
       /\ procs' = Resume(p, [p EXCEPT !.pc = "send", !.data = data])
       /\ out' = Out("create", p.gid, "", "")
       /\ UNCHANGED <<msg, endTimer, ddTimer, rollsDrawn, budget>>

\* channel.send posts the message with the Join and Force End buttons, or
\* fails: the handler then ends without a second save and without a timer.
CreateSend(p) ==
    /\ \/ /\ msg' = [msg EXCEPT ![p.gid] =
                        [posted |-> TRUE, buttons |-> "join", winnerId |-> ""]]
          /\ procs' = Resume(p, [p EXCEPT !.pc = "posted"])
          /\ out' = Out("create", p.gid, "", "")
       \/ /\ procs' = Finish(p)
          /\ out' = Out("create", p.gid, "", "post_failed")
          /\ UNCHANGED msg
    /\ UNCHANGED <<store, endTimer, ddTimer, rollsDrawn, budget>>

\* g.messageId = msg.id; await saveGiveaways(data); setTimeout(resolve).
CreatePosted(p) ==
    /\ store' = [p.data EXCEPT ![p.gid].messageId = TRUE]
    /\ endTimer' = [endTimer EXCEPT ![p.gid] = @ + 1]
    /\ procs' = Finish(p)
    /\ out' = Out("create", p.gid, "", "started")
    /\ UNCHANGED <<msg, ddTimer, rollsDrawn, budget>>

-----------------------------------------------------------------------------
(* Submitting an entry: the modal_join handler *)

JoinReply(g) ==
    IF ~store[g].present THEN "not_found"
    ELSE IF store[g].ended THEN "already_ended"
    ELSE "joined"

Join(g, e) ==
    /\ msg[g].posted
    /\ budget.events > 0
    /\ budget' = [budget EXCEPT !.events = @ - 1]
    /\ out' = Out("join", g, "", JoinReply(g))
    /\ store' = IF JoinReply(g) = "joined"
                THEN [store EXCEPT ![g].entries = Append(@, e)]
                ELSE store
    /\ UNCHANGED <<procs, msg, endTimer, ddTimer, rollsDrawn>>

\* The modal's fields as the handler parses them (lines 458-462): parseInt
\* gives an integer or NaN, toLowerCase a lower-case text.
NaN == [nan |-> TRUE, v |-> 0]
Parsed(v) == [nan |-> FALSE, v |-> v]

\* toLowerCase on the texts of the model.
ToLowerCase(t) ==
    CASE t = "Over" -> "over"
      [] t = "HIGH" -> "high"
      [] OTHER -> t

Submission(u, main, tiebreak, stake, choice, risk) ==
    [userId |-> u, main |-> main, tiebreak |-> tiebreak, stake |-> stake,
     choice |-> ToLowerCase(choice), risk |-> ToLowerCase(risk)]

\* The validation without its test of the tiebreak.
ValidationReplyNoTiebreak(s) ==
    IF s.main.nan \/ s.main.v < 0 \/ s.main.v > 100 THEN "invalid_main"
    ELSE IF s.choice \notin {"under", "over"} THEN "invalid_choice"
    ELSE IF s.risk \notin {"low", "high"} THEN "invalid_risk"
    ELSE "ok"

\* The validation of lines 465-480: the first rejection, or "ok".
ValidationReply(s) ==
    IF s.main.nan \/ s.main.v < 0 \/ s.main.v > 100 THEN "invalid_main"
    ELSE IF s.tiebreak.nan \/ s.tiebreak.v < 0 \/ s.tiebreak.v > 100
         THEN "invalid_tiebreak"
    ELSE IF s.choice \notin {"under", "over"} THEN "invalid_choice"
    ELSE IF s.risk \notin {"low", "high"} THEN "invalid_risk"
    ELSE "ok"

\* The entry pushed for a submission that passed the validation.
EntryOf(s) ==
    Entry(s.userId, s.main.v, s.tiebreak.v, s.stake, s.choice, s.risk)

\* The whole handler: a submission that fails the validation is answered
\* before the store is loaded.
JoinModal(g, s) ==
    IF ValidationReply(s) = "ok"
    THEN Join(g, EntryOf(s))
    ELSE /\ msg[g].posted
         /\ budget.events > 0
         /\ budget' = [budget EXCEPT !.events = @ - 1]
         /\ out' = Out("join", g, "", ValidationReply(s))
         /\ UNCHANGED <<store, procs, msg, endTimer, ddTimer, rollsDrawn>>

\* The submissions of the model: those of E1 and E2, and one per rejection.
JoinSubmissions ==
    { Submission("u1", Parsed(50), Parsed(10), 1, "under", "HIGH"),
      Submission("u2", Parsed(50), Parsed(10), -1000, "Over", "low"),
      Submission("u1", NaN, Parsed(10), 1, "under", "high"),
      Submission("u1", Parsed(101), Parsed(10), 1, "under", "high"),
      Submission("u1", Parsed(50), Parsed(-1), 1, "under", "high"),
      Submission("u1", Parsed(50), NaN, 1, "under", "high"),
      Submission("u1", Parsed(50), Parsed(10), 1, "maybe", "high"),
      Submission("u1", Parsed(50), Parsed(10), 1, "under", "medium") }

-----------------------------------------------------------------------------
(* resolveGiveaway *)

\* The guard without its test of the ended flag.
ResolveSkipsUnlessMissing(g) == ~store[g].present

\* if (!g || g.ended) return;
ResolveSkips(g) == ~store[g].present \/ store[g].ended

\* const data = await loadGiveaways(); the guard; g.ended = true on the
\* private copy; then the request for the roll.
ResolveLoad(g, op) ==
    IF ResolveSkips(g)
    THEN /\ out' = Out(op, g, "", "skipped")
         /\ UNCHANGED <<store, procs>>
    ELSE /\ procs' = Suspend(Proc("resolve", "roll", g,
                                  [store EXCEPT ![g].ended = TRUE], ""))
         /\ out' = Out(op, g, "", "resolving")
         /\ UNCHANGED store

\* setTimeout(() => resolveGiveaway(id), duration*1000) fires.
EndTimerFires(g) ==
    /\ endTimer[g] > 0
    /\ endTimer' = [endTimer EXCEPT ![g] = @ - 1]
    /\ ResolveLoad(g, "timer")
    /\ UNCHANGED <<msg, ddTimer, rollsDrawn, budget>>

\* The Force End button: not found, no permission, or resolveGiveaway(gid).
ForceEnd(g, admin) ==
    /\ msg[g].buttons = "join"
    /\ budget.events > 0
    /\ budget' = [budget EXCEPT !.events = @ - 1]
    /\ IF ~store[g].present
       THEN /\ out' = Out("forceend", g, "", "not_found")
            /\ UNCHANGED <<store, procs>>
       ELSE IF ~admin
       THEN /\ out' = Out("forceend", g, "", "no_permission")
            /\ UNCHANGED <<store, procs>>
       ELSE ResolveLoad(g, "forceend")
    /\ UNCHANGED <<msg, endTimer, ddTimer, rollsDrawn>>

\* The Random Source fails: the error result is saved with the private copy.
ResolveRollFails(p) ==
    /\ store' = [p.data EXCEPT ![p.gid].result = "error"]
    /\ procs' = Finish(p)
    /\ out' = Out("resolve", p.gid, "", "random_failed")
    /\ UNCHANGED <<msg, endTimer, ddTimer, rollsDrawn, budget>>

\* The roll arrives and no entry matches it: winner null, saved; the message
\* loses its buttons unless the channel calls fail.
ResolveNoWinner(p, roll) ==
    /\ WinnersCandidates(p.data[p.gid].entries, roll) = <<>>
    /\ rollsDrawn' = [rollsDrawn EXCEPT ![p.gid] = @ + 1]
    /\ store' = [p.data EXCEPT ![p.gid].roll = roll, ![p.gid].hasRoll = TRUE,
                               ![p.gid].winner = NullWinner,
                               ![p.gid].result = "no_winners"]
    /\ \/ msg' = [msg EXCEPT ![p.gid].buttons = "none", ![p.gid].winnerId = ""]
       \/ UNCHANGED msg
    /\ procs' = Finish(p)
    /\ out' = Out("resolve", p.gid, "", "no_winners")
    /\ UNCHANGED <<endTimer, ddTimer, budget>>

\* The roll arrives and some entry matches: the selection and the
\* configuration read follow.
ResolveRoll(p, roll) ==
    /\ WinnersCandidates(p.data[p.gid].entries, roll) # <<>>
    /\ rollsDrawn' = [rollsDrawn EXCEPT ![p.gid] = @ + 1]
    /\ procs' = Resume(p, [p EXCEPT !.pc = "select",
                                    !.data[p.gid].roll = roll,
                                    !.data[p.gid].hasRoll = TRUE])
    /\ out' = Out("resolve", p.gid, "", "rolled")
    /\ UNCHANGED <<store, msg, endTimer, ddTimer, budget>>

\* The drawing after lines 234-266: pot reduced, winner and result set.
Resolution(g, fw) ==
    [g EXCEPT !.pot = PotAfterShare(g.pot, PotShareAmount(g.pot, fw.riskProfile)),
              !.winner = WinnerRecord(fw, g.pot),
              !.result = "winner"]

\* The selection (with the Random Source answers tie and fin), the payout
\* and await saveGiveaways(data) of line 268.
ResolveCommit(p, tie, fin) ==
    LET g == p.data[p.gid]
        cands == WinnersCandidates(g.entries, g.roll)
        resolved == Resolved(cands, tie)
        data == [p.data EXCEPT ![p.gid] = Resolution(g, FinalWinner(resolved, fin))]
    IN /\ fin \in FinalAnswers(resolved)
       /\ store' = data
       /\ procs' = Resume(p, [p EXCEPT !.pc = "announce", !.data = data])
       /\ out' = [Out("resolve", p.gid, "", "winner_saved")
                    EXCEPT !.calls = SelectionRequests(cands, tie, fin)]
       /\ UNCHANGED <<msg, endTimer, ddTimer, rollsDrawn, budget>>

\* Fetching the channel and the message and msg.edit: the message now shows
\* the Yes/No buttons carrying the winner's id; or one of the calls fails and
\* the catch of line 307 ends the invocation.
ResolveAnnounce(p) ==
    /\ \/ /\ msg' = [msg EXCEPT ![p.gid].buttons = "dd",
                                ![p.gid].winnerId = p.data[p.gid].winner.userId]
          /\ procs' = Resume(p, [p EXCEPT !.pc = "arm"])
          /\ out' = Out("resolve", p.gid, "", "announced")
       \/ /\ procs' = Finish(p)
          /\ out' = Out("resolve", p.gid, "", "announce_failed")
          /\ UNCHANGED msg
    /\ UNCHANGED <<store, endTimer, ddTimer, rollsDrawn, budget>>

\* g.doubleDown = {pending, deadline, winnerId}: the deadline is kept as its
\* distance from Date.now() at this assignment.
PendingDoubleDown(g) ==
    [state |-> "pending", deadline |-> DoubleDownMs, winnerId |-> g.winner.userId]

\* Lines 286-305: the sub-game is saved and its timeout armed.
ResolveArm(p) ==
    /\ store' = [p.data EXCEPT ![p.gid].doubleDown = PendingDoubleDown(p.data[p.gid])]
    /\ ddTimer' = [ddTimer EXCEPT ![p.gid] = @ + 1]
    /\ procs' = Finish(p)
    /\ out' = Out("resolve", p.gid, "", "armed")
    /\ UNCHANGED <<msg, endTimer, rollsDrawn, budget>>

-----------------------------------------------------------------------------
(* The double-down sub-game *)

\* The message edit that removes the buttons may fail (the catch is empty).
ButtonsRemovedOrNot(g) ==
    \/ msg' = [msg EXCEPT ![g].buttons = "none", ![g].winnerId = ""]
    \/ UNCHANGED msg

\* The timeout callback of lines 290-305.
TimeoutApplies(g) ==
    store[g].present /\ store[g].doubleDown.state = "pending"

DDTimeout(g) ==
    /\ ddTimer[g] > 0
    /\ ddTimer' = [ddTimer EXCEPT ![g] = @ - 1]
    /\ IF TimeoutApplies(g)
       THEN /\ store' = [store EXCEPT ![g].doubleDown.state = "no"]
            /\ ButtonsRemovedOrNot(g)
            /\ out' = Out("dd_timeout", g, "", "auto_no")
       ELSE /\ out' = Out("dd_timeout", g, "", "skipped")
            /\ UNCHANGED <<store, msg>>
    /\ UNCHANGED <<procs, endTimer, rollsDrawn, budget>>

\* The checks without the test that the sub-game is pending.
DDCheckIgnoringState(g, u, winnerId) ==
    IF ~store[g].present \/ store[g].winner.kind # "some" THEN "not_found"
    ELSE IF u # winnerId THEN "wrong_user"
    ELSE "ok"

\* The checks of lines 388-399 on a click by user u of a button whose
\* customId names winnerId: the rejection, or "ok".
DDCheck(g, u, winnerId) ==
    IF ~store[g].present \/ store[g].winner.kind # "some" THEN "not_found"
    ELSE IF u # winnerId THEN "wrong_user"
    ELSE IF store[g].doubleDown.state # "pending" THEN "not_pending"
    ELSE "ok"

\* A click on Yes or No (act), by user u, on the buttons the message shows.
DDClick(g, u, act) ==
    /\ msg[g].buttons = "dd"
    /\ budget.events > 0
    /\ budget' = [budget EXCEPT !.events = @ - 1]
    /\ IF DDCheck(g, u, msg[g].winnerId) # "ok"
       THEN /\ out' = Out(act, g, u, DDCheck(g, u, msg[g].winnerId))
            /\ UNCHANGED <<store, procs, msg>>
       ELSE IF act = "dd_no"
       THEN /\ store' = [store EXCEPT ![g].doubleDown.state = "no"]
            /\ ButtonsRemovedOrNot(g)
            /\ out' = Out(act, g, u, "declined")
            /\ UNCHANGED procs
       ELSE /\ procs' = Suspend(Proc("dd_yes", "random", g, store, u))
            /\ out' = Out(act, g, u, "drawing")
            /\ UNCHANGED <<store, msg>>
    /\ UNCHANGED <<endTimer, ddTimer, rollsDrawn>>

\* The returned amount without its floor at zero.
LoseReturnUnclamped(winner) == winner.baseWinC \div 100

\* const ret = Math.max(0, Math.floor(g.winner.baseWinC)), in whole c.
LoseReturn(winner) == Max(0, winner.baseWinC \div 100)

\* Lines 416-423 (r >= 50) and 434-439 (r < 50) on the private copy.
DoubleDownResult(g, r) ==
    IF r >= WinThreshold
    THEN [g EXCEPT !.winner.payoutC = @ + 100 * g.pot,
                   !.pot = 0,
                   !.doubleDown.state = "yes_win"]
    ELSE [g EXCEPT !.pot = @ + LoseReturn(g.winner),
                   !.winner.payoutC = Max(0, @ - 100 * LoseReturn(g.winner)),
                   !.doubleDown.state = "yes_lose"]

\* The Random Source answers the accept with r: the result is saved.
DDYesRandom(p, r) ==
    /\ store' = [p.data EXCEPT ![p.gid] = DoubleDownResult(p.data[p.gid], r)]
    /\ ButtonsRemovedOrNot(p.gid)
    /\ procs' = Finish(p)
    /\ out' = [Out("dd_yes_random", p.gid, p.user,
                   IF r >= WinThreshold THEN "win" ELSE "lose")
                 EXCEPT !.calls = <<Request("accept", 0, 101,
                                            [ok |-> TRUE, v |-> r])>>]
    /\ UNCHANGED <<endTimer, ddTimer, rollsDrawn, budget>>

\* A failure handled as a refusal: the copy is saved with the sub-game "no".
DDYesFailsAsDecline(p) ==
    /\ store' = [p.data EXCEPT ![p.gid].doubleDown.state = "no"]
    /\ procs' = Finish(p)
    /\ out' = Out("dd_yes_random", p.gid, p.user, "random_failed")
    /\ UNCHANGED <<msg, endTimer, ddTimer, rollsDrawn, budget>>

\* The Random Source fails the accept: only the reply.
DDYesFails(p) ==
    /\ procs' = Finish(p)
    /\ out' = Out("dd_yes_random", p.gid, p.user, "random_failed")
    /\ UNCHANGED <<store, msg, endTimer, ddTimer, rollsDrawn, budget>>

-----------------------------------------------------------------------------
(* The system *)

Create ==
    \/ \E g \in Gids : CreateLoad(g)
    \/ \E p \in Waiting("create", "config") : CreatePush(p)
    \/ \E p \in Waiting("create", "send") : CreateSend(p)
    \/ \E p \in Waiting("create", "posted") : CreatePosted(p)

Submit == \E g \in Gids, e \in JoinInputs : Join(g, e)

Resolve ==
    \/ \E g \in Gids : EndTimerFires(g)
    \/ \E g \in Gids, admin \in BOOLEAN : ForceEnd(g, admin)
    \/ \E p \in Waiting("resolve", "roll") : ResolveRollFails(p)
    \/ \E p \in Waiting("resolve", "roll"), r \in Rolls : ResolveNoWinner(p, r)
    \/ \E p \in Waiting("resolve", "roll"), r \in Rolls : ResolveRoll(p, r)
    \/ \E p \in Waiting("resolve", "select") :
          \E tie \in TieAnswers(WinnersCandidates(p.data[p.gid].entries,
                                                  p.data[p.gid].roll)) :
             \E fin \in RandomOutcomes(Len(p.data[p.gid].entries)) :
                ResolveCommit(p, tie, fin)
    \/ \E p \in Waiting("resolve", "announce") : ResolveAnnounce(p)
    \/ \E p \in Waiting("resolve", "arm") : ResolveArm(p)

DoubleDown ==
    \/ \E g \in Gids : DDTimeout(g)
    \/ \E g \in Gids, u \in Users, act \in {"dd_yes", "dd_no"} : DDClick(g, u, act)
    \/ \E p \in Waiting("dd_yes", "random"), r \in Rolls : DDYesRandom(p, r)
    \/ \E p \in Waiting("dd_yes", "random") : DDYesFails(p)

Next == Create \/ Submit \/ Resolve \/ DoubleDown

Spec == Init /\ [][Next]_vars

\* Two drawings whose handlers interleave, ended by timer or by force.
NextTwo ==
    \/ Create
    \/ Submit
    \/ \E g \in Gids : EndTimerFires(g)
    \/ \E g \in Gids, admin \in BOOLEAN : ForceEnd(g, admin)
    \/ \E p \in Waiting("resolve", "roll") : ResolveRollFails(p)
    \/ \E p \in Waiting("resolve", "roll"), r \in Rolls : ResolveNoWinner(p, r)
    \/ \E p \in Waiting("resolve", "roll"), r \in Rolls : ResolveRoll(p, r)
    \/ \E p \in Waiting("resolve", "select") :
          \E tie \in TieAnswers(WinnersCandidates(p.data[p.gid].entries,
                                                  p.data[p.gid].roll)) :
             \E fin \in RandomOutcomes(Len(p.data[p.gid].entries)) :
                ResolveCommit(p, tie, fin)
    \/ \E p \in Waiting("resolve", "announce") : ResolveAnnounce(p)
    \/ \E p \in Waiting("resolve", "arm") : ResolveArm(p)
    \/ \E g \in Gids : DDTimeout(g)

SpecTwo == InitTwo /\ [][NextTwo]_vars

\* Two drawings and the submissions as the modal delivers them, valid or not.
SubmitModal == \E g \in Gids, s \in JoinSubmissions : JoinModal(g, s)

ResolveSteps ==
    \/ \E p \in Waiting("resolve", "roll") : ResolveRollFails(p)
    \/ \E p \in Waiting("resolve", "roll"), r \in Rolls : ResolveNoWinner(p, r)
    \/ \E p \in Waiting("resolve", "roll"), r \in Rolls : ResolveRoll(p, r)
    \/ \E p \in Waiting("resolve", "select") :
          \E tie \in TieAnswers(WinnersCandidates(p.data[p.gid].entries,
                                                  p.data[p.gid].roll)) :
             \E fin \in RandomOutcomes(Len(p.data[p.gid].entries)) :
                ResolveCommit(p, tie, fin)
    \/ \E p \in Waiting("resolve", "announce") : ResolveAnnounce(p)
    \/ \E p \in Waiting("resolve", "arm") : ResolveArm(p)

InitJoin ==
    InitWith([create |-> Gids, events |-> MaxEventsJoin])

NextJoin ==
    \/ Create
    \/ SubmitModal
    \/ \E g \in Gids : EndTimerFires(g)
    \/ ResolveSteps
    \/ \E g \in Gids : DDTimeout(g)

SpecJoin == InitJoin /\ [][NextJoin]_vars

\* One resolution, over every list of entries: the drawing has been created
\* with one of the configured pots, its message posted and its timer armed,
\* and the entries have been submitted.  Mains and rolls meet at 40 and 60.
Pots == {DefaultPot, 90}

SelectEntries ==
    { Entry(u, m, t, IF u = "u1" THEN 1 ELSE -1000, c,
            IF u = "u1" THEN "high" ELSE "low") :
        u \in Users, m \in {40, 60}, t \in {10, 90}, c \in {"under", "over"} }

EntryLists == UNION {[1 .. n -> SelectEntries] : n \in 0 .. MaxEntries}

\* Values the Random Source returns to a double-down accept.
DDRolls == {49, 50}

\* The state after $start and the submissions: the drawing is saved with
\* its messageId, the message shows the join button, the end timer is armed.
InitResolving(pots, lists, clicks) ==
    /\ budget = [create |-> {}, events |-> clicks]
    /\ store \in { [g \in Gids |->
                      IF g = "A"
                      THEN [NewDrawing(pot) EXCEPT !.entries = es,
                                                   !.messageId = TRUE]
                      ELSE Absent] : pot \in pots, es \in lists }
    /\ procs = EmptyBag
    /\ msg = [g \in Gids |->
                IF g = "A"
                THEN [posted |-> TRUE, buttons |-> "join", winnerId |-> ""]
                ELSE NoMessage]
    /\ endTimer = [g \in Gids |-> IF g = "A" THEN 1 ELSE 0]
    /\ ddTimer = [g \in Gids |-> 0]
    /\ rollsDrawn = [g \in Gids |-> 0]
    /\ out = Out("init", "", "", "")

InitSelect == InitResolving(Pots, EntryLists, 0)

NextSelect ==
    \/ \E g \in Gids : EndTimerFires(g)
    \/ ResolveSteps

SpecSelect == InitSelect /\ [][NextSelect]_vars

\* One resolution of a drawing with a single entry, then the double-down
\* sub-game with its clicks and its timeout.
InitAccept == InitResolving(Pots, [1 .. 1 -> SelectEntries], MaxClicks)

NextAccept ==
    \/ \E g \in Gids : EndTimerFires(g)
    \/ ResolveSteps
    \/ \E g \in Gids : DDTimeout(g)
    \/ \E g \in Gids, u \in Users, act \in {"dd_yes", "dd_no"} : DDClick(g, u, act)
    \/ \E p \in Waiting("dd_yes", "random"), r \in DDRolls : DDYesRandom(p, r)
    \/ \E p \in Waiting("dd_yes", "random") : DDYesFails(p)

SpecAccept == InitAccept /\ [][NextAccept]_vars

\* Two drawings that nobody ends by force: only the timers resolve them.
\* Every pending call returns (with a result or a failure) and every armed
\* timer fires; commands and submissions may or may not come.
InitLive ==
    InitWith([create |-> Gids, events |-> MaxEventsLive])

CallReturns(g) ==
    \/ \E p \in Waiting("create", "config") : p.gid = g /\ CreatePush(p)
    \/ \E p \in Waiting("create", "send") : p.gid = g /\ CreateSend(p)
    \/ \E p \in Waiting("create", "posted") : p.gid = g /\ CreatePosted(p)
    \/ \E p \in Waiting("resolve", "roll") : p.gid = g /\ ResolveRollFails(p)
    \/ \E p \in Waiting("resolve", "roll"), r \in Rolls :
          p.gid = g /\ ResolveNoWinner(p, r)
    \/ \E p \in Waiting("resolve", "roll"), r \in Rolls :
          p.gid = g /\ ResolveRoll(p, r)
    \/ \E p \in Waiting("resolve", "select") :
          \E tie \in TieAnswers(WinnersCandidates(p.data[p.gid].entries,
                                                  p.data[p.gid].roll)) :
             \E fin \in RandomOutcomes(Len(p.data[p.gid].entries)) :
                p.gid = g /\ ResolveCommit(p, tie, fin)
    \/ \E p \in Waiting("resolve", "announce") : p.gid = g /\ ResolveAnnounce(p)
    \/ \E p \in Waiting("resolve", "arm") : p.gid = g /\ ResolveArm(p)

NextLive ==
    \/ \E g \in Gids : CreateLoad(g)
    \/ Submit
    \/ \E g \in Gids : CallReturns(g)
    \/ \E g \in Gids : EndTimerFires(g)
    \/ \E g \in Gids : DDTimeout(g)

Fairness ==
    \A g \in Gids :
        /\ WF_vars(CallReturns(g))
        /\ WF_vars(EndTimerFires(g))
        /\ WF_vars(DDTimeout(g))

SpecLive == InitLive /\ [][NextLive]_vars /\ Fairness

-----------------------------------------------------------------------------
(* Properties *)

\* The handler that creates g has not finished.
CreateInFlight(g) ==
    \E p \in BagToSet(procs) : p.kind = "create" /\ p.gid = g

\* The step just taken started resolveGiveaway for g (timer or forced end).
ResolveStarted(g) ==
    /\ out'.gid = g
    /\ out'.op \in {"timer", "forceend"}
    /\ out'.reply \in {"skipped", "resolving"}

\* The step just taken was a click on a double-down button of g.
Clicked(g) == out'.gid = g /\ out'.op \in {"dd_yes", "dd_no"}

\* C1: however two resolutions of one drawing interleave, at most one of
\* them obtains a roll from the Random Source.
C1_AtMostOneRoll == \A g \in Gids : rollsDrawn[g] <= 1

\* C2: a drawing whose persisted result is the Random Source error is still
\* open (ended is false), so that a later resolution can resolve it.
C2_ErrorLeavesOpen ==
    \A g \in Gids :
        (store[g].present /\ store[g].result = "error") => ~store[g].ended

\* The step just taken belongs to a double-down handler of g: a click, the
\* answer to an accept, or the timeout.
DoubleDownStep(g) ==
    /\ out'.gid = g
    /\ out'.op \in {"dd_yes", "dd_no", "dd_yes_random", "dd_timeout"}

\* C3: once the persisted doubleDown.state is no, yes_win or yes_lose, no
\* click, answer to an accept or timeout changes it.
C3_TerminalStays ==
    [][\A g \in Gids :
          (store[g].doubleDown.state \in {"no", "yes_win", "yes_lose"}
             /\ DoubleDownStep(g))
             => store'[g].doubleDown.state = store[g].doubleDown.state]_vars

\* C4: a step of an operation on one drawing leaves the persisted record of
\* every other drawing as it was.
C4_OthersUntouched ==
    [][\A g \in Gids : out'.gid # g => store'[g] = store[g]]_vars

\* C5: once the persisted ended flag of a drawing is true, it stays true
\* and the persisted entries stay the same (stated for a drawing whose
\* creation has completed).
C5_EndedIsFinal ==
    [][\A g \in Gids :
          (store[g].present /\ store[g].ended /\ ~CreateInFlight(g))
             => /\ store'[g].ended
                /\ store'[g].entries = store[g].entries]_vars

\* C6: the persisted pot of every drawing is never negative.
C6_PotNonNegative == \A g \in Gids : store[g].present => store[g].pot >= 0

\* A double-down was lost by a winner whose base win is negative, and was
\* persisted: the case where the returned amount is clamped.
C6_Witness ==
    \E g \in Gids :
        /\ store[g].doubleDown.state = "yes_lose"
        /\ store[g].winner.baseWinC < 0
        /\ store[g].pot > 0

\* C7: when an invocation of resolveGiveaway that saved a winner ends, the
\* drawing's persisted doubleDown is pending with the six-hour deadline and
\* a timeout is armed, also when announcing the winner failed.
C7_WinnerGetsDoubleDown ==
    [][\A g \in Gids :
          (out'.gid = g /\ out'.op = "resolve"
             /\ out'.reply \in {"armed", "announce_failed"})
             => /\ store'[g].doubleDown.state = "pending"
                /\ store'[g].doubleDown.deadline = DoubleDownMs
                /\ ddTimer'[g] > 0]_vars

\* C8: a resolveGiveaway invocation that starts on a drawing that is ended
\* or not in the store writes nothing, requests no roll and goes no further.
C8_EndedResolveIsNoOp ==
    [][\A g \in Gids :
          (ResolveStarted(g) /\ (~store[g].present \/ store[g].ended))
             => /\ store' = store
                /\ rollsDrawn' = rollsDrawn
                /\ procs' = procs
                /\ out'.reply = "skipped"]_vars

\* A resolution was started on an ended drawing, and skipped.
C8_Witness ==
    /\ out.op \in {"timer", "forceend"}
    /\ out.reply = "skipped"
    /\ store[out.gid].present
    /\ store[out.gid].ended

\* C9 (as amended): a click or a timeout on a sub-game that is not pending
\* writes nothing and requests no random number; the click is answered "no
\* longer available" when the drawing has a winner and the user is the one
\* the button names, and otherwise as not found or as the wrong user.
C9_NonPendingIsNoOp ==
    [][\A g \in Gids :
          ((Clicked(g) \/ (out'.gid = g /\ out'.op = "dd_timeout"))
              /\ store[g].doubleDown.state # "pending")
             => /\ store' = store
                /\ procs' = procs
                /\ rollsDrawn' = rollsDrawn
                /\ Clicked(g) =>
                     out'.reply =
                        IF ~store[g].present \/ store[g].winner.kind # "some"
                        THEN "not_found"
                        ELSE IF out'.user # msg[g].winnerId THEN "wrong_user"
                        ELSE "not_pending"]_vars

\* The winner clicked after the sub-game was decided and was told that the
\* double-down is no longer available.
C9_Witness ==
    /\ out.op \in {"dd_yes", "dd_no"}
    /\ out.reply = "not_pending"
    /\ store[out.gid].doubleDown.state \in {"no", "yes_win", "yes_lose"}

\* C9 (as stated): every click on a sub-game that is not pending is
\* answered "no longer available".
C9_AlwaysNoLongerAvailable ==
    [][\A g \in Gids :
          (Clicked(g) /\ store[g].doubleDown.state # "pending")
             => out'.reply = "not_pending"]_vars

\* C10: a click by a user who is not the persisted winner of the drawing
\* changes nothing: it neither writes the store nor starts an accept.
C10_OnlyWinnerResponds ==
    [][\A g \in Gids :
          (Clicked(g) /\ store[g].present /\ store[g].winner.kind = "some"
             /\ out'.user # store[g].winner.userId)
             => /\ store' = store
                /\ procs' = procs]_vars

\* The submission fails the validation: main or tiebreak is not a number or
\* lies outside 0..100, or the choice or the risk profile is not a known one.
InvalidSubmission(s) ==
    \/ s.main.nan \/ s.main.v \notin 0 .. 100
    \/ s.tiebreak.nan \/ s.tiebreak.v \notin 0 .. 100
    \/ s.choice \notin {"under", "over"}
    \/ s.risk \notin {"low", "high"}

\* C11: a submission that is invalid, or names a drawing that is not in the
\* store or has ended, is rejected and writes nothing: the persisted
\* collection is the same after the handler as before it.
C11_RejectedWritesNothing ==
    [][\A g \in Gids, s \in JoinSubmissions :
          (JoinModal(g, s)
             /\ (InvalidSubmission(s) \/ ~store[g].present \/ store[g].ended))
             => /\ store' = store
                /\ out'.reply # "joined"]_vars

\* A valid submission was rejected because the drawing had ended.
C11_Witness ==
    /\ out.op = "join"
    /\ out.reply = "already_ended"
    /\ store[out.gid].ended

\* The roll r satisfies the entry's guess.
Satisfies(e, r) ==
    \/ e.choice = "under" /\ r <= e.main
    \/ e.choice = "over" /\ r >= e.main

\* The persisted winner w is the entry e.
IsEntry(w, e) ==
    /\ w.userId = e.userId
    /\ w.main = e.main
    /\ w.tiebreak = e.tiebreak
    /\ w.choice = e.choice
    /\ w.stake = e.stakeC

\* The step just taken saved the outcome of a resolution of g whose roll
\* was obtained.
ResolutionSaved(g) ==
    /\ out'.gid = g
    /\ out'.op = "resolve"
    /\ out'.reply \in {"no_winners", "winner_saved"}

\* The invocations of resolveGiveaway(g) that wait for the roll or for the
\* answers of the selection; data[g] is the drawing as they loaded it.
Resolving(g) ==
    {p \in BagToSet(procs) :
        p.kind = "resolve" /\ p.gid = g /\ p.pc \in {"roll", "select"}}

\* C12: a resolution whose roll was obtained persists a winner exactly when
\* some entry satisfies the persisted roll, and that winner is one of the
\* satisfying entries; when no entry does, the winner is null, the drawing
\* is ended with the no-winner result and the pot is the one the
\* resolution found.
C12_WinnerIffCandidate ==
    [][\A g \in Gids :
          ResolutionSaved(g) =>
             LET d == store'[g]
                 sat == {i \in DOMAIN d.entries : Satisfies(d.entries[i], d.roll)}
             IN /\ d.hasRoll
                /\ d.winner.kind = IF sat = {} THEN "null" ELSE "some"
                /\ sat # {} => \E i \in sat : IsEntry(d.winner, d.entries[i])
                /\ sat = {} => /\ d.ended
                               /\ d.result = "no_winners"
                               /\ \E p \in Resolving(g) :
                                     /\ d.entries = p.data[g].entries
                                     /\ d.pot = p.data[g].pot]_vars

\* A resolution saved a winner although another entry did not satisfy the
\* roll, which met the winner's main exactly.
C12_Witness ==
    /\ out.op = "resolve"
    /\ out.reply = "winner_saved"
    /\ store[out.gid].roll = store[out.gid].winner.main
    /\ \E i \in DOMAIN store[out.gid].entries :
          ~Satisfies(store[out.gid].entries[i], store[out.gid].roll)

\* C13: the winner a resolution persists holds the highest tiebreak among
\* the entries that satisfy the roll and share its main, whatever their
\* order in the list and whatever the Random Source answers.
C13_HighestTiebreakWins ==
    [][\A g \in Gids :
          (ResolutionSaved(g) /\ out'.reply = "winner_saved") =>
             LET d == store'[g]
             IN \A i \in DOMAIN d.entries :
                   (Satisfies(d.entries[i], d.roll)
                      /\ d.entries[i].main = d.winner.main)
                      => d.entries[i].tiebreak <= d.winner.tiebreak]_vars

\* The first entry of the list satisfied the roll with the winner's main
\* and a lower tiebreak, and lost to a later entry.
C13_Witness ==
    /\ out.op = "resolve"
    /\ out.reply = "winner_saved"
    /\ LET d == store[out.gid]
       IN /\ Satisfies(d.entries[1], d.roll)
          /\ d.entries[1].main = d.winner.main
          /\ d.entries[1].tiebreak < d.winner.tiebreak

\* The entries of list es that satisfy roll r, have main m and hold the
\* highest tiebreak among the satisfying entries of main m.
TopOfMain(es, r, m) ==
    {i \in DOMAIN es :
        /\ Satisfies(es[i], r)
        /\ es[i].main = m
        /\ \A j \in DOMAIN es :
              (Satisfies(es[j], r) /\ es[j].main = m)
                 => es[j].tiebreak <= es[i].tiebreak}

\* The mains of the entries of es that satisfy r: one group each.
MainsOf(es, r) == {es[i].main : i \in {j \in DOMAIN es : Satisfies(es[j], r)}}

\* C14: after the roll, the selection calls the Random Source once for each
\* main-group in which k >= 2 satisfying entries share the highest
\* tiebreak, with the range 0..k-1, once for the final pick when m >= 2
\* groups remain, with the range 0..m-1, and never otherwise.
C14_RandomOnlyOnTies ==
    [][\A g \in Gids :
          (ResolutionSaved(g) /\ out'.reply = "winner_saved") =>
             LET d == store'[g]
                 calls == out'.calls
                 mains == MainsOf(d.entries, d.roll)
                 K(m) == Cardinality(TopOfMain(d.entries, d.roll, m))
                 forGroup(m) == {i \in DOMAIN calls :
                                   calls[i].for = "group" /\ calls[i].key = m}
                 forFinal == {i \in DOMAIN calls : calls[i].for = "final"}
             IN /\ \A i \in DOMAIN calls :
                      \/ calls[i].for = "final"
                      \/ calls[i].for = "group" /\ calls[i].key \in mains
                /\ \A m \in mains :
                      /\ Cardinality(forGroup(m)) = IF K(m) >= 2 THEN 1 ELSE 0
                      /\ \A i \in forGroup(m) :
                            calls[i].min = 0 /\ calls[i].max = K(m) - 1
                /\ Cardinality(forFinal)
                      = IF Cardinality(mains) >= 2 THEN 1 ELSE 0
                /\ \A i \in forFinal :
                      calls[i].min = 0 /\ calls[i].max = Cardinality(mains) - 1]_vars

\* Two satisfying entries shared a main and a tiebreak: one call, 0..1.
C14_Witness ==
    /\ out.op = "resolve"
    /\ out.reply = "winner_saved"
    /\ Len(out.calls) = 1
    /\ out.calls[1].for = "group"
    /\ out.calls[1].max = 1

\* C15: a resolution that finds pot P and persists a winner whose risk
\* profile has pot-share percent s persists potShareC = floor(P * s / 100),
\* the pot max(0, P - potShareC) and payoutC = baseWinC + potShareC
\* (payoutC and baseWinC are kept in hundredths).
C15_PotShareIsExactFloor ==
    [][\A g \in Gids :
          (ResolutionSaved(g) /\ out'.reply = "winner_saved") =>
             \E p \in Resolving(g) :
                LET P == p.data[g].pot
                    d == store'[g]
                    w == d.winner
                IN \E i \in DOMAIN d.entries :
                      /\ IsEntry(w, d.entries[i])
                      /\ LET s == IF d.entries[i].riskProfile = "high"
                                  THEN HighPotSharePercent
                                  ELSE LowPotSharePercent
                         IN /\ w.potShareC = (P * s) \div 100
                            /\ d.pot = Max(0, P - w.potShareC)
                            /\ w.payoutC = w.baseWinC + 100 * w.potShareC]_vars

\* The step just taken is the answer d of the Random Source to an accept
\* on g, whose sub-game was pending.
AcceptAnswered(g, d) ==
    /\ out'.gid = g
    /\ out'.op = "dd_yes_random"
    /\ out'.calls = <<Request("accept", 0, 101, [ok |-> TRUE, v |-> d])>>
    /\ store[g].doubleDown.state = "pending"

\* C16: an accept on a pending sub-game answered with d >= 50 ends in
\* yes_win, the payout raised by the whole pot and the pot 0; answered with
\* d < 50 it ends in yes_lose, ret = floor(baseWinC) added to the pot and the
\* payout max(0, payout - ret).
C16_AcceptOutcomes ==
    [][\A g \in Gids, d \in 0 .. 100 :
          AcceptAnswered(g, d) =>
             LET before == store[g]
                 after == store'[g]
                 ret == before.winner.baseWinC \div 100
             IN IF d >= 50
                THEN /\ after.doubleDown.state = "yes_win"
                     /\ after.winner.payoutC
                           = before.winner.payoutC + 100 * before.pot
                     /\ after.pot = 0
                ELSE /\ after.doubleDown.state = "yes_lose"
                     /\ after.pot = before.pot + ret
                     /\ after.winner.payoutC
                           = Max(0, before.winner.payoutC - 100 * ret)
                     /\ after.winner.payoutC >= 0]_vars

\* C17: every persisted entry has main and tiebreak in 0..100, a choice of
\* under or over, a risk profile of low or high and a positive stake.
C17_EntriesWellFormed ==
    \A g \in Gids : \A i \in DOMAIN store[g].entries :
        LET e == store[g].entries[i]
        IN /\ e.main \in 0 .. 100
           /\ e.tiebreak \in 0 .. 100
           /\ e.choice \in {"under", "over"}
           /\ e.riskProfile \in {"low", "high"}
           /\ e.stakeC > 0

\* No call is pending and no timer is armed: without a new command, a
\* submission or a click, nothing more happens.
Quiescent ==
    /\ procs = EmptyBag
    /\ \A g \in Gids : endTimer[g] = 0 /\ ddTimer[g] = 0

\* C18: every drawing that was created and saved gets resolved and ended by
\* its timer, also when posting its message failed: once every call has
\* returned and every armed timer has fired, no saved drawing is left open.
C18_CreatedGetsEnded ==
    \A g \in Gids : (Quiescent /\ store[g].present) => store[g].ended

\* C19: every sub-game that became pending leaves pending through its
\* timeout: once every call has returned and every armed timer has fired,
\* no sub-game is left pending.
C19_PendingGetsDecided ==
    \A g \in Gids :
        (Quiescent /\ store[g].present) => store[g].doubleDown.state # "pending"

\* The position in list es of the first entry that is the persisted winner w.
FirstIndex(es, w) ==
    CHOOSE i \in DOMAIN es :
        IsEntry(w, es[i]) /\ \A j \in DOMAIN es : IsEntry(w, es[j]) => i <= j

\* C20: when the Random Source fails during the selection, the entry that
\* comes first in the drawing's entry list among those chosen between is
\* taken.  With no tie inside a group and a failed final pick, those are the
\* group representatives: the winner is the first entry of the list among
\* the entries that satisfy the roll with their group's highest tiebreak,
\* whatever its main.
C20_FallbackIsFirstSubmitted ==
    [][\A g \in Gids :
          (/\ ResolutionSaved(g)
           /\ out'.reply = "winner_saved"
           /\ Len(out'.calls) = 1
           /\ out'.calls[1].for = "final"
           /\ ~out'.calls[1].ok) =>
             LET d == store'[g]
             IN \A i \in DOMAIN d.entries :
                   i \in TopOfMain(d.entries, d.roll, d.entries[i].main)
                      => FirstIndex(d.entries, d.winner) <= i]_vars

-----------------------------------------------------------------------------
(* Submissions interleaved with each other and with a resolution *)

\* The modal_join handler at the grain of its awaits: a valid submission of
\* entry e for g reaches const data = await loadGiveaways() (line 482) and
\* holds its private copy of the collection.
JoinLoad(g, e) ==
    /\ msg[g].posted
    /\ budget.events > 0
    /\ budget' = [budget EXCEPT !.events = @ - 1]
    /\ procs' = Suspend([kind |-> "join", pc |-> "loaded", gid |-> g,
                         data |-> store, user |-> e.userId, entry |-> e])
    /\ out' = Out("join", g, e.userId, "loading")
    /\ UNCHANGED <<store, msg, endTimer, ddTimer, rollsDrawn>>

\* Lines 483-491 on the private copy.
JoinReplyOn(data, g) ==
    IF ~data[g].present THEN "not_found"
    ELSE IF data[g].ended THEN "already_ended"
    ELSE "joined"

\* Lines 483-509: the checks on the copy, g.entries.push(...), await
\* saveGiveaways(data) and the reply.
JoinSave(p) ==
    /\ store' = IF JoinReplyOn(p.data, p.gid) = "joined"
                THEN [p.data EXCEPT ![p.gid].entries = Append(@, p.entry)]
                ELSE store
    /\ procs' = Finish(p)
    /\ out' = Out("join", p.gid, p.user, JoinReplyOn(p.data, p.gid))
    /\ UNCHANGED <<msg, endTimer, ddTimer, rollsDrawn, budget>>

\* A posted drawing without entries, its end timer armed; submissions and
\* one resolution by the timer.
InitEntries == InitResolving({DefaultPot}, {<<>>}, MaxSubmissions)

NextEntries ==
    \/ \E g \in Gids, e \in JoinInputs : JoinLoad(g, e)
    \/ \E p \in Waiting("join", "loaded") : JoinSave(p)
    \/ \E g \in Gids : EndTimerFires(g)
    \/ ResolveSteps

SpecEntries == InitEntries /\ [][NextEntries]_vars

\* The number of entries of es equal to e.
Count(es, e) == Len(SelectSeq(es, LAMBDA x : x = e))

\* C21: an entry that was accepted and saved stays, unmodified, in the
\* persisted entries of its drawing: no step lowers the number of persisted
\* entries equal to it.
C21_AcceptedEntriesStay ==
    [][\A g \in Gids, e \in JoinInputs :
          Count(store'[g].entries, e) >= Count(store[g].entries, e)]_vars

\* The step just taken is a double-down handler of g taking the persisted
\* sub-game from pending to a decided state.
DecidedFromPending(g) ==
    /\ DoubleDownStep(g)
    /\ store[g].doubleDown.state = "pending"
    /\ store'[g].doubleDown.state \in {"no", "yes_win", "yes_lose"}

\* pot + winner.payoutC of a drawing, in hundredths of c.
PotPlusPayout(g) == 100 * g.pot + g.winner.payoutC

\* C22: a double-down transition taken from pending preserves
\* pot + winner.payoutC, and a decline or a timeout changes neither of them.
C22_DoubleDownPreservesSum ==
    [][\A g \in Gids :
          DecidedFromPending(g) =>
             /\ PotPlusPayout(store'[g]) = PotPlusPayout(store[g])
             /\ store'[g].doubleDown.state = "no" =>
                   /\ store'[g].pot = store[g].pot
                   /\ store'[g].winner.payoutC = store[g].winner.payoutC]_vars

\* The step just taken is the failure of the Random Source in an accept on g.
AcceptFailed(g) ==
    /\ out'.gid = g
    /\ out'.op = "dd_yes_random"
    /\ out'.reply = "random_failed"

\* C23: when the Random Source fails during an accept, nothing is written;
\* a sub-game that was pending stays pending with the same payout and pot,
\* and it can still be decided: the message keeps the Yes/No buttons, on
\* which a click of the winner passes the handler's checks, and the timeout
\* is still armed.
C23_FailedAcceptWritesNothing ==
    [][\A g \in Gids :
          AcceptFailed(g) =>
             /\ store' = store
             /\ msg' = msg
             /\ ddTimer' = ddTimer
             /\ store[g].doubleDown.state = "pending" =>
                   /\ store'[g].doubleDown.state = "pending"
                   /\ store'[g].winner.payoutC = store[g].winner.payoutC
                   /\ store'[g].pot = store[g].pot
                   /\ msg'[g].buttons = "dd"
                   /\ DDCheck(g, store[g].winner.userId, msg'[g].winnerId) = "ok"
                   /\ ddTimer'[g] > 0]_vars

\* An accept has just failed on a sub-game that is pending.
C23_Witness ==
    /\ out.op = "dd_yes_random"
    /\ out.reply = "random_failed"
    /\ out.gid \in Gids
    /\ store[IF out.gid \in Gids THEN out.gid ELSE "A"].doubleDown.state = "pending"

=============================================================================
